---- MODULE Spec2Model ----
(***************************************************************************)
(* A model of uncoverml/patch.py: the patch spacing arithmetic (_spacing), *)
(* the grid patch generator (grid_patches), the point patch extractor      *)
(* (point_patches) and the window partitioner (image_windows).             *)
(*                                                                         *)
(* An image is a sequence of rows, a row a sequence of pixels and a pixel  *)
(* a sequence of channel values (a 2-D array is an image with one channel, *)
(* as _checkim treats it).  Indices are 0-based in the program and 1-based *)
(* in the sequences of the model: image[r, c, ch] is image[r+1][c+1][ch+1].*)
(* A slice is a pair <<start, stop>>.                                      *)
(***************************************************************************)
EXTENDS Integers, Sequences, FiniteSets

\* ------------------------------------------------------------------ bounds
MaxDim == 6        \* largest number of rows / columns of a gridded image
MaxChan == 2       \* largest number of channels
MaxPwidth == 2     \* largest patch half-width
MaxStride == 4     \* largest stride
MaxWindows == 7    \* largest nwindows
MaxLength == 12    \* largest dimension handed to _spacing directly
MaxPtDim == 3      \* largest number of rows / columns of a point_patches image
MaxPtPwidth == 1   \* largest patch half-width handed to point_patches
MaxPoints == 2     \* largest number of points

\* ------------------------------------------------------------- arithmetic
Min(a, b) == IF a < b THEN a ELSE b
Max(a, b) == IF a > b THEN a ELSE b

\* int(np.floor(float(a) / 2)) for a >= 0
FloorHalf(a) == a \div 2

\* range(start, stop, step) for step >= 1, as a sequence
range(start, stop, step) ==
    LET n == IF stop > start THEN (stop - start + step - 1) \div step ELSE 0
    IN  [k \in 1..n |-> start + (k - 1) * step]

\* seq[start:stop] of Python (negative indices count from the end, indices
\* beyond the ends are clipped)
PySlice(seq, start, stop) ==
    LET n  == Len(seq)
        s0 == IF start < 0 THEN Max(start + n, 0) ELSE Min(start, n)
        e0 == IF stop < 0 THEN Max(stop + n, 0) ELSE Min(stop, n)
    IN  IF s0 < e0 THEN SubSeq(seq, s0 + 1, e0) ELSE << >>

RECURSIVE Concat(_)
Concat(ss) == IF ss = << >> THEN << >> ELSE Head(ss) \o Concat(Tail(ss))

\* ndarray.flatten() / np.reshape(a, size) of a rows x cols x channels array:
\* row-major (C order)
flatten(a) == Concat([r \in 1..Len(a) |-> Concat(a[r])])

\* image[rs, cs] for two slices
Index2(image, rs, cs) ==
    LET R == PySlice(image, rs[1], rs[2])
    IN  [r \in 1..Len(R) |-> PySlice(R[r], cs[1], cs[2])]

\* ------------------------------------------------------------------ images
\* the image of a given shape whose pixel values are all distinct
MakeImage(Ih, Iw, Ic) ==
    [r \in 1..Ih |-> [c \in 1..Iw |-> [ch \in 1..Ic |->
        ((r - 1) * Iw + (c - 1)) * Ic + (ch - 1)]]]

NoImage == << >>

_checkim(image) == <<Len(image), Len(image[1]), Len(image[1][1])>>

\* ----------------------------------------------------------------- _spacing
\* _spacing with the remainder rounded up instead of down
_spacing_ceil(dimension, psize, pstride) ==
    LET offset == (((dimension - psize) % pstride) + 1) \div 2
    IN  range(offset, dimension - psize + 1, pstride)

\* _spacing with the whole remainder put in front
_spacing_nohalf(dimension, psize, pstride) ==
    LET offset == (dimension - psize) % pstride
    IN  range(offset, dimension - psize + 1, pstride)

\* _spacing with the remainder taken of the dimension, not of the free space
_spacing_dimmod(dimension, psize, pstride) ==
    LET offset == FloorHalf(dimension % pstride)
    IN  range(offset, dimension - psize + 1, pstride)

_spacing(dimension, psize, pstride) ==
    LET offset == FloorHalf((dimension - psize) % pstride)
    IN  range(offset, dimension - psize + 1, pstride)

\* ------------------------------------------------------------------- state
VARIABLES
    pc,            \* which call is in progress / has finished
    image,         \* the image argument of the call
    full,          \* the whole image a window was cut from (NoImage if none)
    pwidth, pstride, centreoffset, points, nwindows,   \* the other arguments
    dimension, psize,                                  \* arguments of _spacing
    ret,           \* the value returned by _spacing / image_windows
    out,           \* the items yielded so far by the generator
    iy, ix,        \* grid_patches: position of the two loops (1-based)
    ip,            \* point_patches: position in points (1-based)
    win,           \* index in ret of the window being re-extracted (0: none)
    err            \* the exception raised, "none" if none

vars == <<pc, image, full, pwidth, pstride, centreoffset, points, nwindows,
          dimension, psize, ret, out, iy, ix, ip, win, err>>

None == << >>

Init ==
    /\ pc = "idle"
    /\ image = NoImage
    /\ full = NoImage
    /\ pwidth = 0
    /\ pstride = 0
    /\ centreoffset = None
    /\ points = << >>
    /\ nwindows = 0
    /\ dimension = 0
    /\ psize = 0
    /\ ret = << >>
    /\ out = << >>
    /\ iy = 0
    /\ ix = 0
    /\ ip = 0
    /\ win = 0
    /\ err = "none"

\* a direct call of _spacing(dimension, psize, pstride)
SpacingCall ==
    /\ pc = "idle"
    /\ \E d \in 0..MaxLength, p \in 1..(2 * MaxPwidth + 1), s \in 0..MaxStride :
        /\ dimension' = d
        /\ psize' = p
        /\ pstride' = s
        /\ IF s = 0
           THEN /\ err' = "ZeroDivisionError"
                /\ ret' = << >>
           ELSE /\ err' = "none"
                /\ ret' = _spacing(d, p, s)
    /\ pc' = "spacing"
    /\ UNCHANGED <<image, full, pwidth, centreoffset, points, nwindows,
                   out, iy, ix, ip, win>>

\* ------------------------------------------------------------- grid_patches
\* the row and column offsets the two loops of grid_patches run over
GridRows == _spacing(_checkim(image)[1], pwidth * 2 + 1, Max(1, pstride))
\* the column loop run over the number of rows
GridCols_rows == _spacing(_checkim(image)[1], pwidth * 2 + 1, Max(1, pstride))

GridCols == _spacing(_checkim(image)[2], pwidth * 2 + 1, Max(1, pstride))

CentreOffsets == {None, <<0, 0>>, <<2, 5>>}

\* grid_patches(image, pwidth, pstride, centreoffset): creates the generator
GridCall ==
    /\ pc = "idle"
    /\ \E Ih \in 1..MaxDim, Iw \in 1..MaxDim, Ic \in 1..MaxChan :
        image' = MakeImage(Ih, Iw, Ic)
    /\ pwidth' \in 0..MaxPwidth
    /\ pstride' \in 0..MaxStride
    /\ centreoffset' \in CentreOffsets
    /\ pc' = "grid"
    /\ iy' = 1
    /\ ix' = 1
    /\ out' = << >>
    /\ UNCHANGED <<full, points, nwindows, dimension, psize, ret, ip, win, err>>

\* one next() of the generator that ends at the yield
GridYield ==
    /\ pc = "grid"
    /\ iy <= Len(GridRows)
    /\ ix <= Len(GridCols)
    /\ LET Ic     == _checkim(image)[3]
           size   == pwidth * 2 + 1
           rsize  == (size * size) * Ic
           y      == GridRows[iy]
           x      == GridCols[ix]
           patchy == <<y, y + size>>
           patchx == <<x, x + size>>
           patch  == flatten(Index2(image, patchy, patchx))
           crow   == y + pwidth
           ccol   == x + pwidth
       IN  IF Len(patch) # rsize
           THEN /\ pc' = "grid_raised"
                /\ err' = "ValueError"
                /\ UNCHANGED <<out, iy, ix>>
           ELSE /\ out' = Append(out,
                     IF centreoffset # None
                     THEN <<patch, crow + centreoffset[1], ccol + centreoffset[2]>>
                     ELSE <<patch, crow, ccol>>)
                /\ IF ix < Len(GridCols)
                   THEN /\ ix' = ix + 1
                        /\ iy' = iy
                   ELSE /\ ix' = 1
                        /\ iy' = iy + 1
                /\ UNCHANGED <<pc, err>>
    /\ UNCHANGED <<image, full, pwidth, pstride, centreoffset, points,
                   nwindows, dimension, psize, ret, ip, win>>

\* the next() of the generator that finds both loops exhausted
GridStop ==
    /\ pc = "grid"
    /\ \/ iy > Len(GridRows)
       \/ Len(GridCols) = 0
    /\ pc' = "grid_done"
    /\ UNCHANGED <<image, full, pwidth, pstride, centreoffset, points,
                   nwindows, dimension, psize, ret, out, iy, ix, ip, win, err>>

\* ------------------------------------------------------------ point_patches
\* all the points an image of at most MaxPtDim rows and columns is asked for
PointSet == (0..MaxPtDim) \X (0..MaxPtDim)

SeqsUpTo(S, n) == UNION {[1..k -> S] : k \in 0..n}

\* the test of lines 95-96: some point is outside [top, bottom] x [left, right]
OutOfBounds(img, pts, pw) ==
    LET Ih     == _checkim(img)[1]
        Iw     == _checkim(img)[2]
        left   == pw
        top    == pw
        bottom == Ih - pw
        right  == Iw - pw
    IN  \/ \E i \in 1..Len(pts) : top > pts[i][1]
        \/ \E i \in 1..Len(pts) : bottom < pts[i][1]
        \/ \E i \in 1..Len(pts) : left > pts[i][2]
        \/ \E i \in 1..Len(pts) : right < pts[i][2]

\* point_patches(image, points, pwidth): checks the points, then returns the
\* generator expression
PointCall ==
    /\ pc = "idle"
    /\ \E Ih \in 1..MaxPtDim, Iw \in 1..MaxPtDim, Ic \in 1..MaxChan :
        image' = MakeImage(Ih, Iw, Ic)
    /\ points' \in SeqsUpTo(PointSet, MaxPoints)
    /\ pwidth' \in 0..MaxPtPwidth
    /\ IF OutOfBounds(image', points', pwidth')
       THEN /\ pc' = "points_raised"
            /\ err' = "ValueError"
            /\ ip' = 0
       ELSE /\ pc' = "points"
            /\ err' = "none"
            /\ ip' = 1
    /\ out' = << >>
    /\ UNCHANGED <<full, pstride, centreoffset, nwindows, dimension, psize,
                   ret, iy, ix, win>>

\* one next() of the generator expression that yields a patch
PointYield ==
    /\ pc = "points"
    /\ ip <= Len(points)
    /\ LET p == points[ip]
       IN  out' = Append(out,
               flatten(Index2(image, <<p[1] - pwidth, p[1] + pwidth + 1>>,
                                     <<p[2] - pwidth, p[2] + pwidth + 1>>)))
    /\ ip' = ip + 1
    /\ UNCHANGED <<pc, image, full, pwidth, pstride, centreoffset, points,
                   nwindows, dimension, psize, ret, iy, ix, win, err>>

\* the next() that finds the points exhausted
PointStop ==
    /\ pc = "points"
    /\ ip > Len(points)
    /\ pc' = "points_done"
    /\ UNCHANGED <<image, full, pwidth, pstride, centreoffset, points,
                   nwindows, dimension, psize, ret, out, iy, ix, ip, win, err>>

\* ------------------------------------------------------------ image_windows
\* the square root rounded down
npside_floor(n) ==
    CHOOSE k \in 0..n : k * k <= n /\ n < (k + 1) * (k + 1)

\* int(round(np.sqrt(nwindows))): the integer nearest to the square root (the
\* square root of an integer is never half-way between two integers)
npside(n) ==
    CHOOSE k \in 0..n : 4 * k * k - 4 * k + 1 <= 4 * n /\ 4 * n < 4 * k * k + 4 * k + 1

\* a split that gives every section len(ary) // n elements and loses the rest
array_split_even(ary, n) ==
    LET Neach == Len(ary) \div n
    IN  [i \in 1..n |-> PySlice(ary, (i - 1) * Neach, i * Neach)]

\* np.array_split(ary, n): n sections, the first len(ary) % n of them one longer
array_split(ary, n) ==
    LET Ntotal == Len(ary)
        Neach  == Ntotal \div n
        extras == Ntotal % n
        div(i) == IF i <= extras
                  THEN i * (Neach + 1)
                  ELSE extras * (Neach + 1) + (i - extras) * Neach
    IN  [i \in 1..n |-> PySlice(ary, div(i - 1), div(i))]

NonEmpty(chunks) == SelectSeq(chunks, LAMBDA s : Len(s) > 0)

\* a slice that stops one pixel late
ChunkSlice_plus1(s, size) == <<s[1], s[Len(s)] + size + 1>>

\* slice(s[0], s[-1] + psize) of a non-empty chunk s
ChunkSlice(s, size) == <<s[1], s[Len(s)] + size>>

image_windows(imshape, nw, pw, ps) ==
    LET n      == npside(nw)
        size   == pw * 2 + 1
        stride == Max(1, ps)
        spacex == NonEmpty(array_split(_spacing(imshape[2], size, stride), n))
        spacey == NonEmpty(array_split(_spacing(imshape[1], size, stride), n))
    IN  Concat([i \in 1..Len(spacey) |-> [j \in 1..Len(spacex) |->
            <<ChunkSlice(spacey[i], size), ChunkSlice(spacex[j], size)>>]])

\* the shapes image_windows is called with: all the small ones and the
\* (10, 10) of the documented scenario
WindowShapes == ((1..MaxDim) \X (1..MaxDim)) \cup {<<10, 10>>}

\* image_windows(image.shape, nwindows, pwidth, pstride)
WindowsCall ==
    /\ pc = "idle"
    /\ pwidth' \in 0..MaxPwidth
    /\ pstride' \in 0..MaxStride
    /\ \E sh \in WindowShapes, Ic \in 1..MaxChan :
        image' = MakeImage(sh[1], sh[2], Ic)
    /\ nwindows' \in 1..MaxWindows
    /\ ret' = image_windows(<<_checkim(image')[1], _checkim(image')[2]>>,
                            nwindows', pwidth', pstride')
    /\ pc' = "windows"
    /\ UNCHANGED <<full, centreoffset, points, dimension, psize, out, iy, ix,
                   ip, win, err>>

\* grid_patches(image[row_slice, col_slice], pwidth, pstride,
\*              centreoffset=(row_slice.start, col_slice.start))
\* for one of the windows returned
WindowGridCall ==
    /\ pc = "windows"
    /\ \E w \in 1..Len(ret) :
        /\ win' = w
        /\ image' = Index2(image, ret[w][1], ret[w][2])
        /\ centreoffset' = <<ret[w][1][1], ret[w][2][1]>>
    /\ full' = image
    /\ pc' = "grid"
    /\ iy' = 1
    /\ ix' = 1
    /\ out' = << >>
    /\ UNCHANGED <<pwidth, pstride, points, nwindows, dimension, psize, ret,
                   ip, err>>

Next ==
    \/ SpacingCall
    \/ GridCall
    \/ GridYield
    \/ GridStop
    \/ PointCall
    \/ PointYield
    \/ PointStop
    \/ WindowsCall
    \/ WindowGridCall

Spec == Init /\ [][Next]_vars

\* ================================================================== claims
\* what the claims speak of, stated without the operators of the model
\* wherever a property of these operators is what is claimed

\* the number of offsets along a dimension: 0 if the patch does not fit
NumOffsets(dim, size, stride) ==
    IF dim >= size THEN (dim - size) \div stride + 1 ELSE 0

\* max(1, pstride)
Clamped(stride) == IF stride < 1 THEN 1 ELSE stride

\* the flattened sub-array img[y:y+size, x:x+size], pixel by pixel; defined
\* when the sub-array lies inside img
SubArray(img, y, x, size) ==
    LET Ic == Len(img[1][1])
    IN  [n \in 1..(size * size * Ic) |->
            img[y + ((n - 1) \div (size * Ic)) + 1]
               [x + (((n - 1) \div Ic) % size) + 1]
               [((n - 1) % Ic) + 1]]

\* the point p violates pwidth <= row <= rows - pwidth - 1 or
\* pwidth <= col <= cols - pwidth - 1
Violates(p, img, pw) ==
    \/ p[1] < pw
    \/ p[1] > Len(img) - pw - 1
    \/ p[2] < pw
    \/ p[2] > Len(img[1]) - pw - 1

\* C1: point_patches raises, and yields nothing, whenever some point violates
\* pwidth <= row <= rows - pwidth - 1 or pwidth <= col <= cols - pwidth - 1
C1_RaisesOnAnyViolation ==
    (/\ pc \in {"points", "points_done", "points_raised"}
     /\ \E i \in 1..Len(points) : Violates(points[i], image, pwidth))
        => (pc = "points_raised" /\ err = "ValueError" /\ out = << >>)

\* C7: whenever point_patches accepts its input it yields one patch per point,
\* in input order, each the complete (2*pwidth+1)**2 * channels neighbourhood
\* of its point
C7_PointPatchesComplete ==
    pc \in {"points", "points_done"} =>
        LET size == 2 * pwidth + 1
        IN  /\ Len(out) <= Len(points)
            /\ pc = "points_done" => Len(out) = Len(points)
            /\ \A i \in 1..Len(out) :
                /\ Len(out[i]) = size * size * Len(image[1][1])
                /\ out[i] = SubArray(image, points[i][1] - pwidth,
                                     points[i][2] - pwidth, size)

\* C3: for dimension >= psize >= 1 and stride >= 1, _spacing returns a
\* non-empty, strictly increasing sequence that starts at
\* floor(((dimension - psize) mod stride) / 2) >= 0, ends at or before
\* dimension - psize, and steps by exactly stride
C3_SpacingShape ==
    (pc = "spacing" /\ dimension >= psize /\ psize >= 1 /\ pstride >= 1) =>
        LET rem == (dimension - psize) % pstride
        IN  /\ err = "none"
            /\ Len(ret) >= 1
            /\ 2 * ret[1] <= rem
            /\ rem < 2 * ret[1] + 2
            /\ ret[1] >= 0
            /\ ret[Len(ret)] <= dimension - psize
            /\ \A k \in 1..(Len(ret) - 1) :
                ret[k] < ret[k + 1] /\ ret[k + 1] - ret[k] = pstride

C3_Witness ==
    /\ pc = "spacing"
    /\ err = "none"
    /\ dimension >= psize
    /\ Len(ret) >= 3
    /\ ret[1] > 0

\* C8: the space _spacing leaves unused is split within one pixel between the
\* two ends: leading gap and trailing gap are each at most ceil(remainder/2)
\* and add up to the remainder
C8_RemainderSplit ==
    (pc = "spacing" /\ dimension >= psize /\ psize >= 1 /\ pstride >= 1) =>
        LET rem      == (dimension - psize) % pstride
            ceilhalf == (rem + 1) \div 2
        IN  /\ Len(ret) >= 1
            /\ ret[1] <= ceilhalf
            /\ dimension - psize - ret[Len(ret)] <= ceilhalf
            /\ ret[1] + (dimension - psize - ret[Len(ret)]) = rem

C8_Witness ==
    /\ pc = "spacing"
    /\ err = "none"
    /\ dimension >= psize
    /\ (dimension - psize) % pstride = 3
    /\ Len(ret) >= 2
    /\ ret[1] = 1
    /\ dimension - psize - ret[Len(ret)] = 2

\* C4: when the patch does not fit the image along rows or columns, _spacing
\* raises; grid_patches never completes with zero patches and image_windows
\* never returns an empty list
C4_NoFitRaises ==
    /\ (pc = "spacing" /\ pstride >= 1 /\ dimension < psize) => err # "none"
    /\ (/\ pc = "grid_done"
        /\ \/ Len(image) < 2 * pwidth + 1
           \/ Len(image[1]) < 2 * pwidth + 1) => out # << >>
    /\ (/\ pc = "windows"
        /\ \/ Len(image) < 2 * pwidth + 1
           \/ Len(image[1]) < 2 * pwidth + 1) => ret # << >>

\* C6: grid_patches yields R*C triples in row-major order of the offsets: the
\* k-th (k = i*C + j) is the flattened image[y_i:y_i+psize, x_j:x_j+psize]
\* with centre (y_i + pwidth, x_j + pwidth), shifted by centreoffset if given;
\* shape (5,5), pwidth 1, pstride 2 gives centres (1,1), (1,3), (3,1), (3,3)
C6_GridRowMajor ==
    /\ pc # "grid_raised"
    /\ pc \in {"grid", "grid_done"} =>
        LET size == 2 * pwidth + 1
            ys   == _spacing(Len(image), size, Clamped(pstride))
            xs   == _spacing(Len(image[1]), size, Clamped(pstride))
            R    == Len(ys)
            C    == Len(xs)
            dy   == IF centreoffset = None THEN 0 ELSE centreoffset[1]
            dx   == IF centreoffset = None THEN 0 ELSE centreoffset[2]
        IN  /\ Len(out) <= R * C
            /\ pc = "grid_done" => Len(out) = R * C
            /\ \A k \in 1..Len(out) :
                LET y == ys[((k - 1) \div C) + 1]
                    x == xs[((k - 1) % C) + 1]
                IN  out[k] = <<SubArray(image, y, x, size),
                               y + pwidth + dy, x + pwidth + dx>>
            /\ (/\ pc = "grid_done"
                /\ Len(image) = 5
                /\ Len(image[1]) = 5
                /\ pwidth = 1
                /\ pstride = 2
                /\ centreoffset = None) =>
                    [k \in 1..Len(out) |-> <<out[k][2], out[k][3]>>]
                        = << <<1, 1>>, <<1, 3>>, <<3, 1>>, <<3, 3>> >>

C6_Witness ==
    /\ pc = "grid_done"
    /\ win = 0
    /\ Len(image) = 5
    /\ Len(image[1]) = 5
    /\ pwidth = 1
    /\ pstride = 2
    /\ centreoffset = None
    /\ Len(out) = 4

\* the integer nearest to the square root of n
IsNearestRoot(k, n) ==
    (2 * k - 1) * (2 * k - 1) < 4 * n /\ 4 * n < (2 * k + 1) * (2 * k + 1)

C10_ValidSlices ==
    (/\ pc = "windows"
     /\ Len(image) >= 2 * pwidth + 1
     /\ Len(image[1]) >= 2 * pwidth + 1) =>
        \A w \in 1..Len(ret) : \A a \in 1..2 :
            LET sl   == ret[w][a]
                dim  == IF a = 1 THEN Len(image) ELSE Len(image[1])
                size == 2 * pwidth + 1
            IN  /\ 0 <= sl[1]
                /\ sl[1] < sl[2]
                /\ sl[2] <= dim
                /\ sl[2] - sl[1] >= size
                /\ (sl[2] - sl[1] - size) % Clamped(pstride) = 0

C10_Witness ==
    /\ pc = "windows"
    /\ pstride = 0
    /\ pwidth = 1
    /\ Len(ret) = 4
    /\ ret[4][1][2] - ret[4][1][1] > 3

\* C2: for every window returned by image_windows, grid_patches on the
\* sub-image with centreoffset = (row_slice.start, col_slice.start) yields
\* exactly the patches and centres whole-image extraction yields for the
\* offsets of that window's chunk
C2_WindowEqualsWhole ==
    /\ win # 0 => pc # "grid_raised"
    /\ (pc = "grid_done" /\ win # 0) =>
        LET size      == 2 * pwidth + 1
            n         == npside(nwindows)
            rowchunks == NonEmpty(array_split(
                            _spacing(Len(full), size, Clamped(pstride)), n))
            colchunks == NonEmpty(array_split(
                            _spacing(Len(full[1]), size, Clamped(pstride)), n))
            nC        == Len(colchunks)
            ys        == rowchunks[((win - 1) \div nC) + 1]
            xs        == colchunks[((win - 1) % nC) + 1]
        IN  /\ ret[win][1][1] = ys[1]
            /\ ret[win][2][1] = xs[1]
            /\ out = Concat([i \in 1..Len(ys) |-> [j \in 1..Len(xs) |->
                        <<SubArray(full, ys[i], xs[j], size),
                          ys[i] + pwidth, xs[j] + pwidth>>]])

C2_Witness ==
    /\ pc = "grid_done"
    /\ win = 4
    /\ Len(ret) = 4
    /\ pwidth = 1
    /\ pstride = 2
    /\ centreoffset[1] > 0
    /\ centreoffset[2] > 0
    /\ Len(out) >= 2

\* C9: along each axis the non-empty chunks are contiguous runs of the whole
\* spacing sequence, in order, of sizes differing by at most 1, concatenating
\* to the whole sequence; every (row offset, col offset) pair is the offset
\* of a patch in exactly one window; the windows are listed row-chunk-major;
\* shape (10,10), nwindows 4, pwidth 0, pstride 1 gives 4 windows of 5x5
\* offsets
C9_LosslessPartition ==
    pc = "windows" =>
        LET size == 2 * pwidth + 1
            ys   == _spacing(Len(image), size, Clamped(pstride))
            xs   == _spacing(Len(image[1]), size, Clamped(pstride))
            InWindow(sl, y) == sl[1] <= y /\ y + size <= sl[2]
            Inside(seq, sl) == SelectSeq(seq, LAMBDA y : InWindow(sl, y))
        IN  /\ (ys = << >> \/ xs = << >>) => ret = << >>
            /\ (ys # << >> /\ xs # << >>) =>
                \E nR \in 1..Len(ret), nC \in 1..Len(ret) :
                    LET rsl == [i \in 1..nR |-> ret[(i - 1) * nC + 1][1]]
                        csl == [j \in 1..nC |-> ret[j][2]]
                        rch == [i \in 1..nR |-> Inside(ys, rsl[i])]
                        cch == [j \in 1..nC |-> Inside(xs, csl[j])]
                    IN  /\ nR * nC = Len(ret)
                        /\ \A i \in 1..nR : \A j \in 1..nC :
                            ret[(i - 1) * nC + j] = <<rsl[i], csl[j]>>
                        /\ Concat(rch) = ys
                        /\ Concat(cch) = xs
                        /\ \A i \in 1..nR :
                            /\ rch[i] # << >>
                            /\ rsl[i] = <<rch[i][1], rch[i][Len(rch[i])] + size>>
                            /\ \A k \in 1..nR : Len(rch[i]) - Len(rch[k]) <= 1
                        /\ \A j \in 1..nC :
                            /\ cch[j] # << >>
                            /\ csl[j] = <<cch[j][1], cch[j][Len(cch[j])] + size>>
                            /\ \A k \in 1..nC : Len(cch[j]) - Len(cch[k]) <= 1
            /\ \A i \in 1..Len(ys) : \A j \in 1..Len(xs) :
                Cardinality({w \in 1..Len(ret) :
                    InWindow(ret[w][1], ys[i]) /\ InWindow(ret[w][2], xs[j])}) = 1
            /\ (/\ Len(image) = 10
                /\ Len(image[1]) = 10
                /\ nwindows = 4
                /\ pwidth = 0
                /\ pstride = 1) =>
                    ret = << <<<<0, 5>>, <<0, 5>>>>, <<<<0, 5>>, <<5, 10>>>>,
                             <<<<5, 10>>, <<0, 5>>>>, <<<<5, 10>>, <<5, 10>>>> >>

C9_Witness ==
    /\ pc = "windows"
    /\ Len(image) = 10
    /\ Len(image[1]) = 10
    /\ nwindows = 4
    /\ pwidth = 0
    /\ pstride = 1
    /\ Len(ret) = 4
====
